---- MODULE Spec2Model ----
(***************************************************************************)
(* The catalog mutations of convex/ingest.ts (addGame, upsertAliases,      *)
(* updateGame) and the name and credit queries (searchGamesByName,         *)
(* listGamesByDeveloper, listGamesByPublisher, listGamesByFranchise,       *)
(* listGamesByPlatform, listGamesByGenre, listGamesByTag) over the tables  *)
(* of convex/schema.ts,                                                    *)
(* and the HTTP action ingestNdjson that feeds the mutations line by line. *)
(*                                                                         *)
(* A mutation is a transaction of the store: it runs on a snapshot and is  *)
(* committed whole, or not at all when it raises.  The actions AddGame,    *)
(* UpsertAliases and UpdateGame are a mutation from its start to its       *)
(* commit; the section "Mutations in flight" takes the two apart, for      *)
(* calls that overlap.                                                     *)
(*                                                                         *)
(* A string that the code normalizes or compares is a sequence of          *)
(* one-character strings; an attribute value (a platform, a genre, ...)    *)
(* is copied verbatim by the code and is an atom.  An optional argument    *)
(* or field is Undefined, Null or Some(v).  A float64 is a record with a   *)
(* nan flag.  An entity reference is the row's position in the games       *)
(* table (rows are never deleted); NullId is the null reference.           *)
(***************************************************************************)
EXTENDS Integers, Sequences, FiniteSets, TLC

VARIABLES
    games,      \* table "games": sequence of rows, _id = position
    joins,      \* the five join tables, by array field, rows in creation order
    aliasRows,  \* table "game_aliases", rows in creation order
    clock,      \* what Date.now() returns
    last,       \* the last call: operation, arguments, result
    batch,      \* ingestNdjson: the lines left, the counts, the response
    txn         \* the mutations in flight, by client

vars == <<games, joins, aliasRows, clock, last, batch, txn>>

-----------------------------------------------------------------------------
(* Bounds of the model *)

MaxGames == 2          \* rows of table games
MaxJoinRows == 3       \* rows of one join table
MaxAliasRows == 3      \* rows of table game_aliases
MaxClock == 2          \* the last value of Date.now()
MaxLines == 2          \* lines of a request body

-----------------------------------------------------------------------------
(* Values *)

Undefined == <<"undefined">>
Null == <<"null">>
Some(v) == <<"some", v>>
Val(o) == o[2]
IsNullish(o) == o = Undefined \/ o = Null

\* a ?? b
Coalesce(a, b) == IF IsNullish(a) THEN b ELSE a

\* float64
Num(n) == [nan |-> FALSE, n |-> n]
NaN == [nan |-> TRUE, n |-> 0]

NullId == 0

\* the array fields of a game and the join table, and its value column, of each
ArrayFields == {"platforms", "genre", "tags", "multiplayer_type", "input_methods"}

JoinTable ==
    [platforms |-> "game_platforms", genre |-> "game_genres", tags |-> "game_tags",
     multiplayer_type |-> "game_multiplayer", input_methods |-> "game_inputs"]

\* every argument name of the three mutations and of the queries
ArgNames ==
    {"id", "title", "notes", "display_name", "normalized_name", "summary",
     "developer", "publisher", "franchise", "release_year", "parent_game",
     "aliases", "q", "cursor", "limit", "platform", "tag", "decade"} \cup ArrayFields

NoArgs == [a \in ArgNames |-> Undefined]

-----------------------------------------------------------------------------
(* Strings *)

Lower(c) ==
    CASE c = "P" -> "p"
      [] c = "H" -> "h"
      [] c = "B" -> "b"
      [] OTHER -> c

IsSpace(c) == c = " "

toLowerCase(s) == [i \in 1..Len(s) |-> Lower(s[i])]

RECURSIVE trimStart(_)
trimStart(s) ==
    IF s # <<>> /\ IsSpace(Head(s)) THEN trimStart(Tail(s)) ELSE s

RECURSIVE trimEnd(_)
trimEnd(s) ==
    IF s # <<>> /\ IsSpace(s[Len(s)]) THEN trimEnd(SubSeq(s, 1, Len(s) - 1)) ELSE s

trim(s) == trimEnd(trimStart(s))

\* normalizeString(value): undefined for null/undefined, else trimmed lower case
normalizeString(value) ==
    IF IsNullish(value) THEN Undefined ELSE Some(toLowerCase(trim(Val(value))))

\* computeDecade(year): undefined for undefined or NaN, else floor(year/10)*10
computeDecade(year) ==
    IF year = Undefined \/ Val(year).nan THEN Undefined
    ELSE Some(Num((Val(year).n \div 10) * 10))

-----------------------------------------------------------------------------
(* The store *)

GameIds == 1..Len(games)

\* ctx.db.get(id)
Exists(id) == id \in GameIds

\* query("games").withIndex("by_normalized_name", q => q.eq(..., name)): the ids
byNormalizedName(name) == {i \in GameIds : games[i].normalized_name = name}

\* .unique() raises when more than one row matches
UniqueThrows(name) == Cardinality(byNormalizedName(name)) > 1

\* .unique(): the row's id, or NullId when there is none (one row at most)
Unique(name) ==
    IF byNormalizedName(name) = {} THEN NullId
    ELSE CHOOSE i \in byNormalizedName(name) : TRUE

\* the rows of a join or alias table of one game, in index order (by_game)
byGame(rows, id) == SelectSeq(rows, LAMBDA r : r.gameId = id)

\* how many rows clearJoin reads: .take(1000), scaled to the model's tables
ClearTake == 2

\* how many rows upsertAliases reads per alias: .take(50), scaled likewise
AliasTake == 1

\* the first n elements of s
take(s, n) == SubSeq(s, 1, IF Len(s) < n THEN Len(s) ELSE n)

\* rows with the elements at the positions in `drop` removed
RECURSIVE Without(_, _, _)
Without(rows, drop, i) ==
    IF i > Len(rows) THEN <<>>
    ELSE (IF i \in drop THEN <<>> ELSE <<rows[i]>>) \o Without(rows, drop, i + 1)

\* the positions in rows of the first n rows of game id
RECURSIVE FirstOfGame(_, _, _, _)
FirstOfGame(rows, id, n, i) ==
    IF i > Len(rows) \/ n = 0 THEN {}
    ELSE IF rows[i].gameId = id
         THEN {i} \cup FirstOfGame(rows, id, n - 1, i + 1)
         ELSE FirstOfGame(rows, id, n, i + 1)

\* faulty variant of clearJoin: the rows are read without the by_game filter
clearJoinAnyGame(rows, id) == SubSeq(rows, Len(take(rows, ClearTake)) + 1, Len(rows))

\* clearJoin(table): delete the rows that by_game .take(1000) returns

clearJoin(rows, id) == Without(rows, FirstOfGame(rows, id, ClearTake, 1), 1)

\* safeInsertMany(table, values, fieldName): one row per value, in order
safeInsertMany(rows, id, values, releaseYear, releaseDecade) ==
    IF IsNullish(values) THEN rows
    ELSE rows \o [i \in 1..Len(Val(values)) |->
                    [gameId |-> id, value |-> Val(values)[i],
                     release_year |-> releaseYear, release_decade |-> releaseDecade]]

\* faulty variant of insertAliases: the aliases are stored as they are given
RECURSIVE insertAliasesRaw(_, _, _)
insertAliasesRaw(rows, id, aliases) ==
    IF aliases = <<>> THEN rows
    ELSE insertAliasesRaw(
             Append(rows, [gameId |-> id, alias |-> Head(aliases), notes |-> Undefined]),
             id, Tail(aliases))

\* the loop "for (const a of aliases)" of addGame and updateGame: normalize,
\* skip the empty ones, insert the rest without looking at the table
RECURSIVE insertAliases(_, _, _)
insertAliases(rows, id, aliases) ==
    IF aliases = <<>> THEN rows
    ELSE LET aliasNorm == Val(normalizeString(Some(Head(aliases))))
         IN  insertAliases(
                 IF aliasNorm = <<>> THEN rows
                 ELSE Append(rows, [gameId |-> id, alias |-> aliasNorm,
                                    notes |-> Undefined]),
                 id, Tail(aliases))

\* args.aliases ?? undefined, then "if (aliases && aliases.length > 0)"
attachAliases(rows, id, aliases) ==
    IF IsNullish(aliases) THEN rows ELSE insertAliases(rows, id, Val(aliases))

-----------------------------------------------------------------------------
(* Results *)

\* a mutation's result has no page; a query's has no _id, flag or count
NoPage == [page |-> <<>>, isDone |-> FALSE, continueCursor |-> Null, ranked |-> <<>>]

Threw(op, args) ==
    [op |-> op, args |-> args, threw |-> TRUE, id |-> NullId, ok |-> FALSE, n |-> 0,
     list |-> NoPage]

\* {_id, inserted}, {_id, updated}, {_id, upserted}: ok is the flag, n the count
Returned(op, args, id, ok, n) ==
    [op |-> op, args |-> args, threw |-> FALSE, id |-> id, ok |-> ok, n |-> n,
     list |-> NoPage]

\* {page, isDone, continueCursor}, or an array (the page alone); ranked keeps
\* the lists the search indexes returned, in their rank order
Listed(op, args, page, isDone, continueCursor, ranked) ==
    [op |-> op, args |-> args, threw |-> FALSE, id |-> NullId, ok |-> FALSE, n |-> 0,
     list |-> [page |-> page, isDone |-> isDone, continueCursor |-> continueCursor,
               ranked |-> ranked]]

\* the model's tables hold the rows a call leaves
Fits(newJoins, newAliasRows) ==
    /\ \A f \in ArrayFields : Len(newJoins[f]) <= MaxJoinRows
    /\ Len(newAliasRows) <= MaxAliasRows

-----------------------------------------------------------------------------
(* addGame *)

\* const normalizedName = (args.normalized_name ?? args.display_name)!
addGameNormalizedName(args) == Val(Coalesce(args.normalized_name, args.display_name))

\* an Id is a string at run time, so "typeof args.parent_game === 'string'" holds
\* for a name and for an Id alike: either is looked up as a normalized_name
parentRaw(args) ==
    IF Val(args.parent_game).kind = "id" THEN <<"#", ToString(Val(args.parent_game).id)>>
    ELSE Val(args.parent_game).name

addGameParentThrows(args) ==
    ~IsNullish(args.parent_game) /\ UniqueThrows(parentRaw(args))

addGameParent(args) ==
    IF IsNullish(args.parent_game) THEN Null
    ELSE IF Unique(parentRaw(args)) = NullId THEN Null
    ELSE Some([kind |-> "id", id |-> Unique(parentRaw(args))])

\* the row ctx.db.insert("games", {...}) writes
newGame(args) ==
    [display_name |-> args.display_name,
     normalized_name |-> addGameNormalizedName(args),
     aliases |-> Undefined,
     summary |-> args.summary,
     franchise |-> Coalesce(args.franchise, Undefined),
     developer |-> Coalesce(args.developer, Undefined),
     publisher |-> Coalesce(args.publisher, Undefined),
     release_year |-> Coalesce(args.release_year, Undefined),
     release_decade |-> computeDecade(Coalesce(args.release_year, Undefined)),
     parent_game |-> addGameParent(args),
     genre |-> Coalesce(args.genre, Undefined),
     platforms |-> Coalesce(args.platforms, Undefined),
     tags |-> Coalesce(args.tags, Undefined),
     multiplayer_type |-> Coalesce(args.multiplayer_type, Undefined),
     input_methods |-> Coalesce(args.input_methods, Undefined),
     createdAt |-> clock,
     updatedAt |-> clock]

\* the lookup of line 57 raises: the mutation fails and writes nothing
AddGameThrows(args) ==
    /\ \/ UniqueThrows(addGameNormalizedName(args))
       \/ /\ Unique(addGameNormalizedName(args)) = NullId
          /\ addGameParentThrows(args)
    /\ last' = Threw("addGame", args)
    /\ UNCHANGED <<games, joins, aliasRows, clock>>

\* faulty variant of AddGameExisting: the existing game's row is touched
AddGameExistingTouchesRow(args) ==
    LET existing == Unique(addGameNormalizedName(args))
    IN  /\ ~UniqueThrows(addGameNormalizedName(args))
        /\ existing # NullId
        /\ games' = [games EXCEPT ![existing].updatedAt = clock]
        /\ aliasRows' = attachAliases(aliasRows, existing, args.aliases)
        /\ Fits(joins, aliasRows')
        /\ last' = Returned("addGame", args, existing, FALSE, 0)
        /\ UNCHANGED <<joins, clock>>

\* "if (existing)": attach the aliases to the existing game, insert nothing else
AddGameExisting(args) ==
    LET existing == Unique(addGameNormalizedName(args))
    IN  /\ ~UniqueThrows(addGameNormalizedName(args))
        /\ existing # NullId
        /\ aliasRows' = attachAliases(aliasRows, existing, args.aliases)
        /\ Fits(joins, aliasRows')
        /\ last' = Returned("addGame", args, existing, FALSE, 0)
        /\ UNCHANGED <<games, joins, clock>>

\* the insert of the game, of its join rows and of its aliases
AddGameNew(args) ==
    LET gameId == Len(games) + 1
        row == newGame(args)
    IN  /\ ~UniqueThrows(addGameNormalizedName(args))
        /\ Unique(addGameNormalizedName(args)) = NullId
        /\ ~addGameParentThrows(args)
        /\ Len(games) < MaxGames
        /\ games' = Append(games, row)
        /\ joins' = [f \in ArrayFields |->
                       safeInsertMany(joins[f], gameId, args[f],
                                      row.release_year, row.release_decade)]
        /\ aliasRows' = attachAliases(aliasRows, gameId, args.aliases)
        /\ Fits(joins', aliasRows')
        /\ last' = Returned("addGame", args, gameId, TRUE, 0)
        /\ UNCHANGED clock

AddGame(args) == AddGameThrows(args) \/ AddGameExisting(args) \/ AddGameNew(args)

-----------------------------------------------------------------------------
(* Full-text search (the store's search indexes) *)

\* the words of s, in order: maximal runs without a space
RECURSIVE Words(_, _)
Words(s, word) ==
    IF s = <<>> THEN (IF word = <<>> THEN <<>> ELSE <<word>>)
    ELSE IF IsSpace(Head(s))
         THEN (IF word = <<>> THEN <<>> ELSE <<word>>) \o Words(Tail(s), <<>>)
         ELSE Words(Tail(s), Append(word, Head(s)))

Terms(s) == Words(toLowerCase(s), <<>>)

IsPrefix(p, t) == Len(p) <= Len(t) /\ SubSeq(t, 1, Len(p)) = p

\* q.search(field, query): a document matches when it holds one of the query's
\* terms; the last term of the query matches as a prefix
SearchMatches(query, text) ==
    LET qs == Terms(query)
        ts == Terms(text)
    IN  /\ qs # <<>>
        /\ \E i \in 1..Len(qs) : \E j \in 1..Len(ts) :
               IF i = Len(qs) THEN IsPrefix(qs[i], ts[j]) ELSE qs[i] = ts[j]

\* withSearchIndex("search_display_name", q => q.search("display_name", query))
searchDisplayName(query) ==
    {i \in GameIds : SearchMatches(query, Val(games[i].display_name))}

-----------------------------------------------------------------------------
(* upsertAliases *)

\* "for (const a of args.aliases)": skip an alias the game already has among the
\* rows .withIndex("by_alias").take(50) returns, insert the others
RECURSIVE upsertLoop(_, _, _, _)
upsertLoop(rows, id, aliases, notes) ==
    IF aliases = <<>> THEN rows
    ELSE LET aliasNorm == Val(normalizeString(Some(Head(aliases))))
             existingForAlias ==
                 take(SelectSeq(rows, LAMBDA r : r.alias = aliasNorm), AliasTake)
             already ==
                 \E k \in 1..Len(existingForAlias) : existingForAlias[k].gameId = id
         IN  upsertLoop(
                 IF aliasNorm = <<>> \/ already THEN rows
                 ELSE Append(rows, [gameId |-> id, alias |-> aliasNorm,
                                    notes |-> Coalesce(notes, Undefined)]),
                 id, Tail(aliases), notes)

\* the second lookup is made when the first finds nothing and the normalized
\* title is non-empty and differs from the title
SecondLookup(title) ==
    /\ Unique(title) = NullId
    /\ Val(normalizeString(Some(title))) # <<>>
    /\ Val(normalizeString(Some(title))) # title

upsertAliasesThrows(title) ==
    \/ UniqueThrows(title)
    \/ SecondLookup(title) /\ UniqueThrows(Val(normalizeString(Some(title))))

\* the games the three lookups may resolve the title to (the search's top hit is
\* the store's choice); {NullId} when all three find nothing
upsertAliasesGame(title) ==
    LET normalizedCandidate == Val(normalizeString(Some(title)))
    IN  IF Unique(title) # NullId THEN {Unique(title)}
        ELSE IF SecondLookup(title) /\ Unique(normalizedCandidate) # NullId
             THEN {Unique(normalizedCandidate)}
        ELSE IF searchDisplayName(title) # {} THEN searchDisplayName(title)
        ELSE {NullId}

UpsertAliasesThrows(args) ==
    /\ upsertAliasesThrows(Val(args.title))
    /\ last' = Threw("upsertAliases", args)
    /\ UNCHANGED <<games, joins, aliasRows, clock>>

\* faulty variant of UpsertAliasesNotFound: the aliases given are counted
UpsertAliasesNotFoundCounts(args) ==
    /\ ~upsertAliasesThrows(Val(args.title))
    /\ NullId \in upsertAliasesGame(Val(args.title))
    /\ last' = Returned("upsertAliases", args, NullId, FALSE, Len(Val(args.aliases)))
    /\ UNCHANGED <<games, joins, aliasRows, clock>>

\* "if (!game) return { _id: null, upserted: 0 }"
UpsertAliasesNotFound(args) ==
    /\ ~upsertAliasesThrows(Val(args.title))
    /\ NullId \in upsertAliasesGame(Val(args.title))
    /\ last' = Returned("upsertAliases", args, NullId, FALSE, 0)
    /\ UNCHANGED <<games, joins, aliasRows, clock>>

UpsertAliasesFound(args) ==
    /\ ~upsertAliasesThrows(Val(args.title))
    /\ \E game \in upsertAliasesGame(Val(args.title)) \ {NullId} :
           /\ aliasRows' = upsertLoop(aliasRows, game, Val(args.aliases), args.notes)
           /\ Fits(joins, aliasRows')
           /\ last' = Returned("upsertAliases", args, game, FALSE,
                               Len(aliasRows') - Len(aliasRows))
    /\ UNCHANGED <<games, joins, clock>>

UpsertAliases(args) ==
    UpsertAliasesThrows(args) \/ UpsertAliasesNotFound(args) \/ UpsertAliasesFound(args)

-----------------------------------------------------------------------------
(* updateGame *)

\* faulty variant of updateGameNormalizedName: the display name is not looked at
updateGameNormalizedNameKeepsKey(args, existing) ==
    Val(Coalesce(args.normalized_name, Some(existing.normalized_name)))

\* args.normalized_name ?? args.display_name ?? existing.normalized_name
updateGameNormalizedName(args, existing) ==
    Val(Coalesce(args.normalized_name,
                 Coalesce(args.display_name, Some(existing.normalized_name))))

\* the schema takes an Id or null for parent_game: patching a name raises
patchViolatesSchema(args) ==
    ~IsNullish(args.parent_game) /\ Val(args.parent_game).kind # "id"

\* faulty variant of patched: createdAt is refreshed as updatedAt is
patchedRefreshesCreatedAt(args, existing) ==
    LET releaseYear == Coalesce(args.release_year, existing.release_year)
    IN  [display_name |-> Coalesce(args.display_name, existing.display_name),
         normalized_name |-> updateGameNormalizedName(args, existing),
         aliases |-> existing.aliases,
         summary |-> Coalesce(args.summary, existing.summary),
         franchise |-> Coalesce(args.franchise, existing.franchise),
         developer |-> Coalesce(args.developer, existing.developer),
         publisher |-> Coalesce(args.publisher, existing.publisher),
         release_year |-> releaseYear,
         release_decade |-> computeDecade(releaseYear),
         parent_game |-> Coalesce(args.parent_game, existing.parent_game),
         genre |-> Coalesce(args.genre, existing.genre),
         platforms |-> Coalesce(args.platforms, existing.platforms),
         tags |-> Coalesce(args.tags, existing.tags),
         multiplayer_type |-> Coalesce(args.multiplayer_type, existing.multiplayer_type),
         input_methods |-> Coalesce(args.input_methods, existing.input_methods),
         createdAt |-> clock,
         updatedAt |-> clock]

\* faulty variant of patched: the stored release_decade is kept
patchedStaleDecade(args, existing) ==
    [display_name |-> Coalesce(args.display_name, existing.display_name),
     normalized_name |-> updateGameNormalizedName(args, existing),
     aliases |-> existing.aliases,
     summary |-> Coalesce(args.summary, existing.summary),
     franchise |-> Coalesce(args.franchise, existing.franchise),
     developer |-> Coalesce(args.developer, existing.developer),
     publisher |-> Coalesce(args.publisher, existing.publisher),
     release_year |-> Coalesce(args.release_year, existing.release_year),
     release_decade |-> existing.release_decade,
     parent_game |-> Coalesce(args.parent_game, existing.parent_game),
     genre |-> Coalesce(args.genre, existing.genre),
     platforms |-> Coalesce(args.platforms, existing.platforms),
     tags |-> Coalesce(args.tags, existing.tags),
     multiplayer_type |-> Coalesce(args.multiplayer_type, existing.multiplayer_type),
     input_methods |-> Coalesce(args.input_methods, existing.input_methods),
     createdAt |-> existing.createdAt,
     updatedAt |-> clock]

\* the row after ctx.db.patch(args.id, {...})
patched(args, existing) ==
    LET releaseYear == Coalesce(args.release_year, existing.release_year)
    IN  [display_name |-> Coalesce(args.display_name, existing.display_name),
         normalized_name |-> updateGameNormalizedName(args, existing),
         aliases |-> existing.aliases,
         summary |-> Coalesce(args.summary, existing.summary),
         franchise |-> Coalesce(args.franchise, existing.franchise),
         developer |-> Coalesce(args.developer, existing.developer),
         publisher |-> Coalesce(args.publisher, existing.publisher),
         release_year |-> releaseYear,
         release_decade |-> computeDecade(releaseYear),
         parent_game |-> Coalesce(args.parent_game, existing.parent_game),
         genre |-> Coalesce(args.genre, existing.genre),
         platforms |-> Coalesce(args.platforms, existing.platforms),
         tags |-> Coalesce(args.tags, existing.tags),
         multiplayer_type |-> Coalesce(args.multiplayer_type, existing.multiplayer_type),
         input_methods |-> Coalesce(args.input_methods, existing.input_methods),
         createdAt |-> existing.createdAt,
         updatedAt |-> clock]

\* "if (args.<field> != null) { clearJoin(table); safeInsertMany(table, ...) }"
replaceJoin(rows, id, values, releaseYear, releaseDecade) ==
    IF IsNullish(values) THEN rows
    ELSE safeInsertMany(clearJoin(rows, id), id, values, releaseYear, releaseDecade)

\* "if (args.aliases != null) { clearJoin("game_aliases"); ... insert ... }"
replaceAliases(rows, id, aliases) ==
    IF IsNullish(aliases) THEN rows
    ELSE attachAliases(clearJoin(rows, id), id, aliases)

\* faulty variant of UpdateGameMissing: the call is reported as an update
UpdateGameMissingReportsUpdated(args) ==
    /\ ~Exists(Val(args.id))
    /\ last' = Returned("updateGame", args, Val(args.id), TRUE, 0)
    /\ UNCHANGED <<games, joins, aliasRows, clock>>

\* faulty variant of UpdateGameMissing: the arrays and the aliases given are
\* written for the id that has no game
UpdateGameMissingWritesRows(args) ==
    /\ ~Exists(Val(args.id))
    /\ joins' = [f \in ArrayFields |->
                   replaceJoin(joins[f], Val(args.id), args[f], Undefined, Undefined)]
    /\ aliasRows' = replaceAliases(aliasRows, Val(args.id), args.aliases)
    /\ Fits(joins', aliasRows')
    /\ last' = Returned("updateGame", args, Val(args.id), FALSE, 0)
    /\ UNCHANGED <<games, clock>>

\* "if (!existing) return { _id: args.id, updated: false }"
UpdateGameMissing(args) ==
    /\ ~Exists(Val(args.id))
    /\ last' = Returned("updateGame", args, Val(args.id), FALSE, 0)
    /\ UNCHANGED <<games, joins, aliasRows, clock>>

UpdateGameThrows(args) ==
    /\ Exists(Val(args.id))
    /\ patchViolatesSchema(args)
    /\ last' = Threw("updateGame", args)
    /\ UNCHANGED <<games, joins, aliasRows, clock>>

UpdateGamePatch(args) ==
    LET id == Val(args.id)
        row == patched(args, games[id])
    IN  /\ Exists(id)
        /\ ~patchViolatesSchema(args)
        /\ games' = [games EXCEPT ![id] = row]
        /\ joins' = [f \in ArrayFields |->
                       replaceJoin(joins[f], id, args[f],
                                   row.release_year, row.release_decade)]
        /\ aliasRows' = replaceAliases(aliasRows, id, args.aliases)
        /\ Fits(joins', aliasRows')
        /\ last' = Returned("updateGame", args, id, TRUE, 0)
        /\ UNCHANGED clock

UpdateGame(args) ==
    UpdateGameMissing(args) \/ UpdateGameThrows(args) \/ UpdateGamePatch(args)

\* faulty variant of UpdateGameStops: what was written before the stop stays,
\* the patched row and a join table without the game's rows
UpdateGameStopsHalfway(args) ==
    LET id == Val(args.id)
        row == patched(args, games[id])
    IN  /\ Exists(id)
        /\ ~patchViolatesSchema(args)
        /\ \E f \in ArrayFields :
               /\ ~IsNullish(args[f])
               /\ joins' = [joins EXCEPT ![f] = clearJoin(joins[f], id)]
        /\ games' = [games EXCEPT ![id] = row]
        /\ last' = Threw("updateGame", args)
        /\ UNCHANGED <<aliasRows, clock>>

\* a ctx.db call between clearJoin and safeInsertMany raises, or the run ends
\* there: the mutation is not committed, none of its writes is kept
UpdateGameStops(args) ==
    /\ Exists(Val(args.id))
    /\ ~patchViolatesSchema(args)
    /\ \E f \in ArrayFields : ~IsNullish(args[f])
    /\ last' = Threw("updateGame", args)
    /\ UNCHANGED <<games, joins, aliasRows, clock>>

-----------------------------------------------------------------------------
(* Queries *)

Min(a, b) == IF a < b THEN a ELSE b

Max(a, b) == IF a > b THEN a ELSE b

\* Math.max(1, Math.min(args.limit ?? dflt, most))
clampLimit(limit, dflt, most) ==
    Max(1, Min(IF limit = Undefined THEN dflt ELSE Val(limit), most))

SearchDefaultLimit == 20
SearchMostLimit == 50
ListDefaultLimit == 25
ListMostLimit == 100

\* withSearchIndex(index, q => q.search(field, query)): the games that match;
\* a game without the field is not in the index
searchField(field, query) ==
    {i \in GameIds :
        games[i][field] # Undefined /\ SearchMatches(query, Val(games[i][field]))}

\* withSearchIndex("search_normalized_name", q => q.search("normalized_name", query))
searchNormalizedName(query) ==
    {i \in GameIds : SearchMatches(query, games[i].normalized_name)}

\* .take(n) of a search: the n best hits, best first; the rank is the store's,
\* so every choice and order of n hits is possible
Ranked(hits, n) ==
    {r \in [1..Min(n, Cardinality(hits)) -> hits] :
        \A i, j \in DOMAIN r : r[i] = r[j] => i = j}

\* withIndex(index, q => q.eq(field, value)): the ids, in creation order
RECURSIVE byField(_, _, _)
byField(field, value, i) ==
    IF i > Len(games) THEN <<>>
    ELSE (IF games[i][field] = Some(value) THEN <<i>> ELSE <<>>)
         \o byField(field, value, i + 1)

\* the position a cursor stands for: the number of rows already returned
startOf(cursor) == IF IsNullish(cursor) THEN 0 ELSE Val(cursor)

\* .paginate({numItems, cursor}).page
paginate(rows, cursor, numItems) ==
    IF startOf(cursor) >= Len(rows) THEN <<>>
    ELSE SubSeq(rows, startOf(cursor) + 1, Min(startOf(cursor) + numItems, Len(rows)))

\* .paginate(...).isDone: false while rows are left, true when the scan met the
\* end; after a page filled with the last rows either
paginateDone(rows, cursor, numItems) ==
    IF startOf(cursor) + numItems < Len(rows) THEN {FALSE}
    ELSE IF startOf(cursor) + numItems > Len(rows) THEN {TRUE}
    ELSE {TRUE, FALSE}

\* faulty variant of ListGamesFallback: the hits come as a page to continue
ListGamesFallbackResumable(op, field, args) ==
    LET limit == clampLimit(args.limit, ListDefaultLimit, ListMostLimit)
        rows == byField(field, Val(args[field]), 1)
    IN  /\ paginate(rows, args.cursor, limit) = <<>>
        /\ \E hits \in Ranked(searchField(field, Val(args[field])), limit) :
               last' = Listed(op, args, hits, FALSE, Some(Len(hits)), <<hits>>)
        /\ UNCHANGED <<games, joins, aliasRows, clock>>

\* "if (page.page.length === 0)": the hits of the search, as a last page
ListGamesFallback(op, field, args) ==
    LET limit == clampLimit(args.limit, ListDefaultLimit, ListMostLimit)
        rows == byField(field, Val(args[field]), 1)
    IN  /\ paginate(rows, args.cursor, limit) = <<>>
        /\ \E hits \in Ranked(searchField(field, Val(args[field])), limit) :
               last' = Listed(op, args, hits, TRUE, Null, <<hits>>)
        /\ UNCHANGED <<games, joins, aliasRows, clock>>

\* "return page": the page of the exact index
ListGamesExact(op, field, args) ==
    LET limit == clampLimit(args.limit, ListDefaultLimit, ListMostLimit)
        rows == byField(field, Val(args[field]), 1)
        page == paginate(rows, args.cursor, limit)
    IN  /\ page # <<>>
        /\ \E isDone \in paginateDone(rows, args.cursor, limit) :
               last' = Listed(op, args, page, isDone,
                              Some(startOf(args.cursor) + Len(page)), <<>>)
        /\ UNCHANGED <<games, joins, aliasRows, clock>>

listGamesByDeveloper(args) ==
    \/ ListGamesExact("listGamesByDeveloper", "developer", args)
    \/ ListGamesFallback("listGamesByDeveloper", "developer", args)

listGamesByPublisher(args) ==
    \/ ListGamesExact("listGamesByPublisher", "publisher", args)
    \/ ListGamesFallback("listGamesByPublisher", "publisher", args)

\* faulty variant of ListFranchiseFallback: the search is over the franchise
ListFranchiseFallbackSameField(args) ==
    ListGamesFallback("listGamesByFranchise", "franchise", args)

\* "Fallback to text search on display_name for franchise string": when the
\* page of by_franchise is empty, the hits of search_display_name, as a last page
ListFranchiseFallback(args) ==
    LET limit == clampLimit(args.limit, ListDefaultLimit, ListMostLimit)
        rows == byField("franchise", Val(args.franchise), 1)
    IN  /\ paginate(rows, args.cursor, limit) = <<>>
        /\ \E hits \in Ranked(searchDisplayName(Val(args.franchise)), limit) :
               last' = Listed("listGamesByFranchise", args, hits, TRUE, Null, <<hits>>)
        /\ UNCHANGED <<games, joins, aliasRows, clock>>

listGamesByFranchise(args) ==
    \/ ListGamesExact("listGamesByFranchise", "franchise", args)
    \/ ListFranchiseFallback(args)

\* withIndex("by_platform", x => x.eq("platform", value)), or, when a decade is
\* given, withIndex("by_platform_decade", x => x.eq("platform", value)
\* .eq("release_decade", decade)): the join rows, in creation order
byAttribute(rows, value, decade) ==
    SelectSeq(rows, LAMBDA r :
        r.value = value /\ (IsNullish(decade) \/ r.release_decade = decade))

\* page.page.map(r => ctx.db.get(r.gameId)) and .filter(Boolean): the games
\* the rows reference, without those that are gone
dereference(page) ==
    SelectSeq([k \in 1..Len(page) |-> page[k].gameId], Exists)

\* listGamesByPlatform, listGamesByGenre, listGamesByTag: a page of the join
\* table of the array field, dereferenced
ListGamesByAttribute(op, field, column, args) ==
    LET limit == clampLimit(args.limit, ListDefaultLimit, ListMostLimit)
        rows == byAttribute(joins[field], Val(args[column]), args.decade)
        page == paginate(rows, args.cursor, limit)
    IN  /\ \E isDone \in paginateDone(rows, args.cursor, limit) :
               last' = Listed(op, args, dereference(page), isDone,
                              Some(startOf(args.cursor) + Len(page)), <<>>)
        /\ UNCHANGED <<games, joins, aliasRows, clock>>

listGamesByPlatform(args) ==
    ListGamesByAttribute("listGamesByPlatform", "platforms", "platform", args)

listGamesByGenre(args) ==
    ListGamesByAttribute("listGamesByGenre", "genre", "genre", args)

listGamesByTag(args) ==
    ListGamesByAttribute("listGamesByTag", "tags", "tag", args)

\* faulty variant of dedupe: nothing is dropped
RECURSIVE dedupeNone(_, _)
dedupeNone(s, seen) ==
    IF s = <<>> THEN <<>> ELSE <<Head(s)>> \o dedupeNone(Tail(s), seen)

\* ".filter(g => ...seen[id]...)": the first occurrence of each game is kept
RECURSIVE dedupe(_, _)
dedupe(s, seen) ==
    IF s = <<>> THEN <<>>
    ELSE IF Head(s) \in seen THEN dedupe(Tail(s), seen)
         ELSE <<Head(s)>> \o dedupe(Tail(s), seen \cup {Head(s)})

searchGamesByName(args) ==
    LET limit == clampLimit(args.limit, SearchDefaultLimit, SearchMostLimit)
    IN  /\ \E byDisplay \in Ranked(searchDisplayName(Val(args.q)), limit) :
            \E byNormalized \in Ranked(searchNormalizedName(Val(args.q)), limit) :
               last' = Listed("searchGamesByName", args,
                              take(dedupe(byDisplay \o byNormalized, {}), limit),
                              FALSE, Null, <<byDisplay, byNormalized>>)
        /\ UNCHANGED <<games, joins, aliasRows, clock>>

-----------------------------------------------------------------------------
(* Time *)

\* Date.now() grows between two calls
Tick ==
    /\ clock < MaxClock
    /\ clock' = clock + 1
    /\ last' = Returned("tick", NoArgs, NullId, FALSE, 0)
    /\ UNCHANGED <<games, joins, aliasRows>>

-----------------------------------------------------------------------------
(* Mutations in flight *)

Clients == {1, 2}

\* a client with no mutation in flight; raced tells that the call and the
\* other client's both looked up one name, and found no row, before either
\* was committed
NoCall ==
    [pc |-> "idle", args |-> NoArgs, read |-> <<>>, raced |-> FALSE,
     threw |-> FALSE, ok |-> FALSE, id |-> NullId]

\* what addGame reads: the rows of by_normalized_name under the name it checks
\* and under the parent it resolves
addGameReads(args) ==
    <<byNormalizedName(addGameNormalizedName(args)),
      IF IsNullish(args.parent_game) THEN {} ELSE byNormalizedName(parentRaw(args))>>

\* the call of client c and a call with args, starting now, both find no row
\* of the one name they check
Races(c, args) ==
    /\ txn[c].pc = "running"
    /\ addGameNormalizedName(txn[c].args) = addGameNormalizedName(args)
    /\ txn[c].read[1] = {}
    /\ byNormalizedName(addGameNormalizedName(args)) = {}

\* the mutation starts: it runs on the tables as they are now
BeginAddGame(c, args) ==
    /\ txn[c].pc # "running"
    /\ txn' = [d \in Clients |->
                 IF d = c
                 THEN [NoCall EXCEPT !.pc = "running", !.args = args,
                                     !.read = addGameReads(args),
                                     !.raced = \E e \in Clients \ {c} : Races(e, args)]
                 ELSE IF Races(d, args) THEN [txn[d] EXCEPT !.raced = TRUE]
                 ELSE txn[d]]
    /\ UNCHANGED <<games, joins, aliasRows, clock, last, batch>>

\* the store commits the mutation: no row it read was written since it started
CommitAddGame(c) ==
    /\ txn[c].pc = "running"
    /\ addGameReads(txn[c].args) = txn[c].read
    /\ AddGame(txn[c].args)
    /\ txn' = [txn EXCEPT ![c].pc = "done", ![c].threw = last'.threw,
                          ![c].ok = last'.ok, ![c].id = last'.id]
    /\ UNCHANGED batch

\* faulty variant of RetryAddGame: the insert decided on the old snapshot is
\* written all the same
CommitAddGameStale(c) ==
    LET args == txn[c].args
        gameId == Len(games) + 1
        row == newGame(args)
    IN  /\ txn[c].pc = "running"
        /\ addGameReads(args) # txn[c].read
        /\ txn[c].read[1] = {}
        /\ Len(games) < MaxGames
        /\ games' = Append(games, row)
        /\ joins' = [f \in ArrayFields |->
                       safeInsertMany(joins[f], gameId, args[f],
                                      row.release_year, row.release_decade)]
        /\ aliasRows' = attachAliases(aliasRows, gameId, args.aliases)
        /\ last' = Returned("addGame", args, gameId, TRUE, 0)
        /\ txn' = [txn EXCEPT ![c].pc = "done", ![c].ok = TRUE, ![c].id = gameId]
        /\ UNCHANGED <<clock, batch>>

\* a row the mutation read was written since it started: the store discards
\* the run and runs the mutation again, on the tables as they are now
RetryAddGame(c) ==
    /\ txn[c].pc = "running"
    /\ addGameReads(txn[c].args) # txn[c].read
    /\ txn' = [txn EXCEPT ![c].read = addGameReads(txn[c].args)]
    /\ UNCHANGED <<games, joins, aliasRows, clock, last, batch>>

-----------------------------------------------------------------------------
(* ingestNdjson *)

\* a line of the body: blank, text that JSON.parse rejects, JSON that is no
\* object (null, a number), or an object, given by its fields
Line(kind, obj) == [kind |-> kind, obj |-> obj]

\* no request is being served
NoBatch ==
    [pc |-> "idle", lines |-> <<>>, inserted |-> 0, skipped |-> 0, log |-> <<>>,
     status |-> 0]

\* text.split(/\r?\n/).filter(l => l.trim().length > 0)
nonBlank(body) == SelectSeq(body, LAMBDA l : l.kind # "blank")

\* "if (request.method !== 'POST') return new Response(..., {status: 405})"
IngestNotPost(request) ==
    /\ batch.pc # "loop"
    /\ request.method # "POST"
    /\ batch' = [NoBatch EXCEPT !.pc = "done", !.status = 405]
    /\ UNCHANGED <<games, joins, aliasRows, clock, last, txn>>

\* neither application/x-ndjson nor application/jsonl: status 415
IngestUnsupported(request) ==
    /\ batch.pc # "loop"
    /\ request.method = "POST"
    /\ request.contentType \notin {"application/x-ndjson", "application/jsonl"}
    /\ batch' = [NoBatch EXCEPT !.pc = "done", !.status = 415]
    /\ UNCHANGED <<games, joins, aliasRows, clock, last, txn>>

\* the request is taken: the non-blank lines, inserted = 0, skipped = 0
IngestStart(request) ==
    /\ batch.pc # "loop"
    /\ request.method = "POST"
    /\ request.contentType \in {"application/x-ndjson", "application/jsonl"}
    /\ batch' = [NoBatch EXCEPT !.pc = "loop", !.lines = nonBlank(request.body)]
    /\ UNCHANGED <<games, joins, aliasRows, clock, last, txn>>

\* the loop moves to the next line; outcome is what the line added to the
\* counts: "inserted", "skipped", or "failed" for a line the catch took
Advance(outcome) ==
    [batch EXCEPT !.lines = Tail(@), !.log = Append(@, outcome),
                  !.inserted = IF outcome = "inserted" THEN @ + 1 ELSE @,
                  !.skipped = IF outcome = "skipped" THEN @ + 1 ELSE @]

\* obj && typeof obj === "object" && obj.title && typeof obj.title === "string"
\* && Array.isArray(obj.aliases): an empty title is falsy
routesToAliases(line) ==
    /\ line.kind = "object"
    /\ ~IsNullish(line.obj.title) /\ Val(line.obj.title) # <<>>
    /\ ~IsNullish(line.obj.aliases)

\* the arguments addGame declares, and its validator: no other field, and
\* display_name and summary are strings
AddGameArgNames ==
    {"display_name", "normalized_name", "summary", "developer", "publisher",
     "franchise", "release_year", "parent_game", "aliases"} \cup ArrayFields

addGameAccepts(line) ==
    /\ line.kind = "object"
    /\ \A a \in ArgNames \ AddGameArgNames : line.obj[a] = Undefined
    /\ ~IsNullish(line.obj.display_name) /\ ~IsNullish(line.obj.summary)

\* faulty variant of IngestUnparsable: the error ends the request
IngestUnparsableAborts ==
    /\ batch.pc = "loop" /\ batch.lines # <<>>
    /\ Head(batch.lines).kind = "garbage"
    /\ batch' = [batch EXCEPT !.pc = "done", !.status = 500]
    /\ last' = Threw("JSON.parse", NoArgs)
    /\ UNCHANGED <<games, joins, aliasRows, clock, txn>>

\* JSON.parse(line) raises: "catch (e) { /* Continue on error */ }"
IngestUnparsable ==
    /\ batch.pc = "loop" /\ batch.lines # <<>>
    /\ Head(batch.lines).kind = "garbage"
    /\ batch' = Advance("failed")
    /\ last' = Threw("JSON.parse", NoArgs)
    /\ UNCHANGED <<games, joins, aliasRows, clock, txn>>

\* ctx.runMutation(upsertAliases, {title, aliases, notes}); a result with
\* upserted > 0 counts as inserted, another as skipped, an error as neither
IngestAliases ==
    /\ batch.pc = "loop" /\ batch.lines # <<>>
    /\ routesToAliases(Head(batch.lines))
    /\ LET obj == Head(batch.lines).obj
       IN  UpsertAliases([NoArgs EXCEPT !.title = obj.title, !.aliases = obj.aliases,
                                        !.notes = Coalesce(obj.notes, Undefined)])
    /\ batch' = Advance(IF last'.threw THEN "failed"
                        ELSE IF last'.n > 0 THEN "inserted" ELSE "skipped")
    /\ UNCHANGED txn

\* ctx.runMutation(addGame, obj) with arguments the validator rejects
IngestGameRejected ==
    /\ batch.pc = "loop" /\ batch.lines # <<>>
    /\ Head(batch.lines).kind \in {"scalar", "object"}
    /\ ~routesToAliases(Head(batch.lines))
    /\ ~addGameAccepts(Head(batch.lines))
    /\ batch' = Advance("failed")
    /\ last' = Threw("addGame", Head(batch.lines).obj)
    /\ UNCHANGED <<games, joins, aliasRows, clock, txn>>

\* ctx.runMutation(addGame, obj); a result with inserted counts as inserted,
\* another as skipped, an error as neither
IngestGame ==
    /\ batch.pc = "loop" /\ batch.lines # <<>>
    /\ ~routesToAliases(Head(batch.lines))
    /\ addGameAccepts(Head(batch.lines))
    /\ AddGame(Head(batch.lines).obj)
    /\ batch' = Advance(IF last'.threw THEN "failed"
                        ELSE IF last'.ok THEN "inserted" ELSE "skipped")
    /\ UNCHANGED txn

\* one turn of "for (const line of lines)"
IngestLine ==
    IngestUnparsable \/ IngestAliases \/ IngestGameRejected \/ IngestGame

\* after the loop: Response(JSON.stringify({inserted, skipped}), {status: 200})
IngestRespond ==
    /\ batch.pc = "loop" /\ batch.lines = <<>>
    /\ batch' = [batch EXCEPT !.pc = "done", !.status = 200]
    /\ UNCHANGED <<games, joins, aliasRows, clock, last, txn>>

-----------------------------------------------------------------------------
(* The calls the clients make *)

Base(name) ==
    [NoArgs EXCEPT !.display_name = Some(name), !.summary = Some(<<"s">>)]

Update(id) == [NoArgs EXCEPT !.id = Some(id)]

\* an update that gives parent_game as a name
UpdateParentByName ==
    [Update(1) EXCEPT !.parent_game = Some([kind |-> "name", name |-> <<"h">>])]

\* an update that renames game 2 to the first display name
UpdateRename == [Update(2) EXCEPT !.display_name = Some(<<"P">>)]

PlainUpsertArgs ==
    {[NoArgs EXCEPT !.title = Some(<<"P">>), !.aliases = Some(<< <<"B">> >>)]}

\* Names
NameAddArgs ==
    {[Base(name) EXCEPT !.normalized_name = nn] :
        name \in {<<"P">>, <<"h">>}, nn \in {Undefined, Null, Some(<<"p">>)}}
    \cup {[Base(<<"h">>) EXCEPT
             !.parent_game = Some([kind |-> "name", name |-> <<"P">>])]}

NameUpdateArgs ==
    {[Update(id) EXCEPT !.display_name = dn, !.normalized_name = nn] :
        id \in 1..(MaxGames + 1),
        dn \in {Undefined, Some(<<"P">>)},
        nn \in {Undefined, Null, Some(<<"p">>)}}
    \cup {UpdateParentByName}

NameUpsertArgs ==
    {[NoArgs EXCEPT !.title = Some(t), !.aliases = Some(<< <<"B">> >>)] :
        t \in {<<"P">>, <<"p", " ">>}}

\* Release years
YearAddArgs ==
    {[Base(name) EXCEPT !.release_year = y] :
        name \in {<<"P">>, <<"h">>},
        y \in {Undefined, Null, Some(Num(1999)), Some(NaN)}}
    \cup {[Base(<<"P">>) EXCEPT !.release_year = Some(Num(1999)),
                                !.platforms = Some(<<"pc">>)]}

YearUpdateArgs ==
    {[Update(id) EXCEPT !.release_year = y] :
        id \in 1..(MaxGames + 1),
        y \in {Undefined, Null, Some(Num(2011)), Some(Num(-5)), Some(NaN)}}
    \cup {UpdateRename, UpdateParentByName}

\* Arrays
JoinUpsertArgs ==
    {[NoArgs EXCEPT !.title = Some(t), !.aliases = Some(<< <<"B">> >>)] :
        t \in {<<"P">>, <<"h">>}}

JoinAddArgs ==
    {[Base(<<"P">>) EXCEPT !.tags = a] :
        a \in {Null, Some(<<"rpg", "indie">>), Some(<<"rpg", "indie", "rpg">>)}}
    \cup {Base(<<"h">>), [Base(<<"h">>) EXCEPT !.genre = Some(<<"puzzle">>)]}

JoinUpdateArgs ==
    {Update(id) : id \in 1..(MaxGames + 1)}
    \cup {[Update(id) EXCEPT !.tags = a] :
            id \in 1..MaxGames, a \in {Some(<<>>), Some(<<"roguelike">>)}}
    \cup {[Update(id) EXCEPT !.genre = Some(<<"puzzle", "sci-fi">>)] : id \in 1..MaxGames}
    \cup {[Update(1) EXCEPT !.tags = Null],
          [Update(1) EXCEPT !.aliases = Some(<< <<"b">> >>)],
          UpdateRename, UpdateParentByName}

\* Updates that give some of the fields and leave out the others
FrameAddArgs ==
    {[Base(<<"P">>) EXCEPT !.tags = Some(<<"rpg", "indie">>)],
     [Base(<<"h">>) EXCEPT !.genre = Some(<<"puzzle">>)]}

FrameUpdateArgs ==
    {Update(id) : id \in 1..(MaxGames + 1)}
    \cup {[Update(id) EXCEPT !.genre = Some(<<"puzzle", "sci-fi">>)] : id \in 1..MaxGames}
    \cup {[Update(id) EXCEPT !.aliases = Some(<< <<"b">> >>)] : id \in 1..MaxGames}
    \cup {[Update(1) EXCEPT !.tags = Null, !.aliases = Null],
          [Update(1) EXCEPT !.tags = Some(<<"roguelike">>)],
          [Update(2) EXCEPT !.tags = Some(<<"roguelike">>), !.genre = Some(<<>>)],
          UpdateRename, UpdateParentByName}

\* Aliases
AliasAddArgs ==
    {[Base(name) EXCEPT !.aliases = a] :
        name \in {<<"P">>, <<"h">>},
        a \in {Undefined, Null, Some(<< <<"B">> >>),
               Some(<< <<"b", " ">>, <<" ">>, <<"B">> >>)}}

AliasUpdateArgs ==
    {[Update(id) EXCEPT !.aliases = a] :
        id \in 1..(MaxGames + 1),
        a \in {Undefined, Null, Some(<<>>), Some(<< <<"B">> >>)}}
    \cup {UpdateRename, UpdateParentByName}

AliasUpsertArgs ==
    {[NoArgs EXCEPT !.title = Some(t), !.aliases = Some(a), !.notes = n] :
        t \in {<<"P">>, <<"h">>, <<"b">>},
        a \in {<< <<"B">> >>, << <<"b", " ">>, <<" ">>, <<"B">> >>},
        n \in {Undefined, Some(<<"n">>)}}

-----------------------------------------------------------------------------
(* The specifications *)

Init ==
    /\ games = <<>>
    /\ joins = [f \in ArrayFields |-> <<>>]
    /\ aliasRows = <<>>
    /\ clock = 0
    /\ last = Returned("none", NoArgs, NullId, FALSE, 0)
    /\ batch = NoBatch
    /\ txn = [c \in Clients |-> NoCall]

\* calls that differ in the names they give
Next ==
    \/ \E args \in NameAddArgs : AddGame(args) /\ UNCHANGED <<batch, txn>>
    \/ \E args \in NameUpdateArgs : UpdateGame(args) /\ UNCHANGED <<batch, txn>>
    \/ \E args \in NameUpsertArgs : UpsertAliases(args) /\ UNCHANGED <<batch, txn>>

Spec == Init /\ [][Next]_vars

\* calls that differ in the release year they give
NextYears ==
    \/ \E args \in YearAddArgs : AddGame(args) /\ UNCHANGED <<batch, txn>>
    \/ \E args \in YearUpdateArgs : UpdateGame(args) /\ UNCHANGED <<batch, txn>>
    \/ \E args \in PlainUpsertArgs : UpsertAliases(args) /\ UNCHANGED <<batch, txn>>

SpecYears == Init /\ [][NextYears]_vars

\* calls that differ in the arrays they give
NextJoins ==
    \/ \E args \in JoinAddArgs : AddGame(args) /\ UNCHANGED <<batch, txn>>
    \/ \E args \in JoinUpdateArgs : UpdateGame(args) /\ UNCHANGED <<batch, txn>>
    \/ \E args \in JoinUpsertArgs : UpsertAliases(args) /\ UNCHANGED <<batch, txn>>

SpecJoins == Init /\ [][NextJoins]_vars

\* updates that give some of the array fields and the aliases, or none
NextFrame ==
    \/ \E args \in FrameAddArgs : AddGame(args) /\ UNCHANGED <<batch, txn>>
    \/ \E args \in FrameUpdateArgs : UpdateGame(args) /\ UNCHANGED <<batch, txn>>
    \/ \E args \in JoinUpsertArgs : UpsertAliases(args) /\ UNCHANGED <<batch, txn>>

SpecFrame == Init /\ [][NextFrame]_vars

\* calls that differ in the aliases they give
NextAliases ==
    \/ \E args \in AliasAddArgs : AddGame(args) /\ UNCHANGED <<batch, txn>>
    \/ \E args \in AliasUpdateArgs : UpdateGame(args) /\ UNCHANGED <<batch, txn>>
    \/ \E args \in AliasUpsertArgs : UpsertAliases(args) /\ UNCHANGED <<batch, txn>>

SpecAliases == Init /\ [][NextAliases]_vars

\* calls at different times
TimeAddArgs == {Base(<<"P">>), Base(<<"h">>)}

TimeUpdateArgs ==
    {Update(id) : id \in 1..(MaxGames + 1)}
    \cup {[Update(1) EXCEPT !.summary = Some(<<"t">>)], UpdateRename, UpdateParentByName}

NextTime ==
    \/ Tick /\ UNCHANGED <<batch, txn>>
    \/ \E args \in TimeAddArgs : AddGame(args) /\ UNCHANGED <<batch, txn>>
    \/ \E args \in TimeUpdateArgs : UpdateGame(args) /\ UNCHANGED <<batch, txn>>
    \/ \E args \in PlainUpsertArgs : UpsertAliases(args) /\ UNCHANGED <<batch, txn>>

SpecTime == Init /\ [][NextTime]_vars

\* creations: of a name that exists, with a parent by name, by reference, null
CreateAddArgs ==
    {Base(<<"P">>),
     [Base(<<"P">>) EXCEPT !.summary = Some(<<"t">>), !.tags = Some(<<"rpg">>),
                           !.release_year = Some(Num(1999)),
                           !.aliases = Some(<< <<"B">>, <<" ">> >>)]}
    \cup {[Base(<<"h">>) EXCEPT !.parent_game = p] :
            p \in {Null, Some([kind |-> "name", name |-> <<"P">>]),
                   Some([kind |-> "name", name |-> <<"b">>]),
                   Some([kind |-> "id", id |-> 1])}}

CreateUpdateArgs ==
    {Update(id) : id \in 1..(MaxGames + 1)} \cup {UpdateRename, UpdateParentByName}

NextCreate ==
    \/ Tick /\ UNCHANGED <<batch, txn>>
    \/ \E args \in CreateAddArgs : AddGame(args) /\ UNCHANGED <<batch, txn>>
    \/ \E args \in CreateUpdateArgs : UpdateGame(args) /\ UNCHANGED <<batch, txn>>
    \/ \E args \in PlainUpsertArgs : UpsertAliases(args) /\ UNCHANGED <<batch, txn>>

SpecCreate == Init /\ [][NextCreate]_vars

\* titles that the first lookup, the second lookup, the search or none resolves
ResolveAddArgs ==
    {Base(<<>>), Base(<<"P">>), [Base(<<"h">>) EXCEPT !.normalized_name = Some(<<"p">>)]}

ResolveUpdateArgs ==
    {Update(id) : id \in 1..(MaxGames + 1)} \cup {UpdateRename, UpdateParentByName}

ResolveUpsertArgs ==
    {[NoArgs EXCEPT !.title = Some(t), !.aliases = Some(<< <<"B">> >>)] :
        t \in {<<" ">>, <<"P">>, <<"p">>, <<"p", " ">>, <<"h">>, <<"b">>}}

NextResolve ==
    \/ \E args \in ResolveAddArgs : AddGame(args) /\ UNCHANGED <<batch, txn>>
    \/ \E args \in ResolveUpdateArgs : UpdateGame(args) /\ UNCHANGED <<batch, txn>>
    \/ \E args \in ResolveUpsertArgs : UpsertAliases(args) /\ UNCHANGED <<batch, txn>>

SpecResolve == Init /\ [][NextResolve]_vars

\* games with a developer and a publisher, and the queries over them
QueryAddArgs ==
    {[Base(<<"P">>) EXCEPT !.developer = Some(<<"b">>)],
     [Base(<<"h">>) EXCEPT !.normalized_name = Some(<<"p">>),
                           !.developer = Some(<<"b">>), !.publisher = Some(<<"w">>)],
     [Base(<<"p", " ", "h">>) EXCEPT !.developer = Some(<<"B", " ", "h">>),
                                     !.publisher = Some(<<"w">>)]}

QueryUpdateArgs == {Update(MaxGames + 1), UpdateRename, UpdateParentByName}

ListArgs(field) ==
    {[NoArgs EXCEPT ![field] = Some(value), !.cursor = c, !.limit = l] :
        value \in {<<"b">>, <<"B">>, <<"w">>},
        c \in {Undefined, Some(1)},
        l \in {Undefined, Some(0), Some(1)}}

SearchArgs ==
    {[NoArgs EXCEPT !.q = Some(q), !.limit = l] :
        q \in {<<"p">>, <<"h">>, <<"b">>},
        l \in {Undefined, Some(-1), Some(1), Some(2), Some(60)}}

NextQueries ==
    \/ \E args \in QueryAddArgs : AddGame(args) /\ UNCHANGED <<batch, txn>>
    \/ \E args \in QueryUpdateArgs : UpdateGame(args) /\ UNCHANGED <<batch, txn>>
    \/ \E args \in ListArgs("developer") : listGamesByDeveloper(args) /\ UNCHANGED <<batch, txn>>
    \/ \E args \in ListArgs("publisher") : listGamesByPublisher(args) /\ UNCHANGED <<batch, txn>>
    \/ \E args \in SearchArgs : searchGamesByName(args) /\ UNCHANGED <<batch, txn>>

SpecQueries == Init /\ [][NextQueries]_vars

\* games with platforms, genres, tags and a release year, updates of the year
\* and of the arrays, and the queries by attribute and decade
AttributeAddArgs ==
    {[Base(<<"P">>) EXCEPT !.platforms = Some(<<"pc">>), !.genre = Some(<<"rpg">>),
                           !.tags = Some(<<"rpg", "pc">>),
                           !.release_year = Some(Num(1999))],
     [Base(<<"h">>) EXCEPT !.platforms = Some(<<"pc">>),
                           !.release_year = Some(Num(2004))],
     [Base(<<"b">>) EXCEPT !.parent_game = Some([kind |-> "name", name |-> <<"P">>])]}

AttributeUpdateArgs ==
    {Update(MaxGames + 1), UpdateParentByName, UpdateRename,
     [Update(1) EXCEPT !.release_year = Some(Num(2004))],
     [Update(1) EXCEPT !.platforms = Some(<<"mac">>)],
     [Update(2) EXCEPT !.genre = Some(<<"rpg">>)]}

AttributeListArgs(column) ==
    {[NoArgs EXCEPT ![column] = Some(value), !.decade = d, !.cursor = c, !.limit = l] :
        value \in {"pc", "rpg"},
        d \in {Undefined, Some(Num(1990))},
        c \in {Undefined, Some(1)},
        l \in {Undefined, Some(1)}}

NextAttributes ==
    \/ \E args \in AttributeAddArgs : AddGame(args) /\ UNCHANGED <<batch, txn>>
    \/ \E args \in AttributeUpdateArgs : UpdateGame(args) /\ UNCHANGED <<batch, txn>>
    \/ \E args \in AttributeListArgs("platform") : listGamesByPlatform(args) /\ UNCHANGED <<batch, txn>>
    \/ \E args \in AttributeListArgs("genre") : listGamesByGenre(args) /\ UNCHANGED <<batch, txn>>
    \/ \E args \in AttributeListArgs("tag") : listGamesByTag(args) /\ UNCHANGED <<batch, txn>>

SpecAttributes == Init /\ [][NextAttributes]_vars

\* request bodies of every kind of line, and calls that make a name ambiguous
IngestLines ==
    {Line("blank", NoArgs), Line("garbage", NoArgs), Line("scalar", NoArgs),
     Line("object", Base(<<"P">>)),
     Line("object", [NoArgs EXCEPT !.title = Some(<<"P">>),
                                   !.aliases = Some(<< <<"B">> >>)]),
     Line("object", [NoArgs EXCEPT !.title = Some(<<>>),
                                   !.aliases = Some(<< <<"B">> >>)]),
     Line("object", [Base(<<"P">>) EXCEPT !.title = Some(<<"P">>),
                                          !.aliases = Some(<< <<"B">> >>)])}

IngestBodies == UNION {[1..n -> IngestLines] : n \in 0..MaxLines}

Request(method, contentType, body) ==
    [method |-> method, contentType |-> contentType, body |-> body]

IngestRequests ==
    {Request("POST", "application/x-ndjson", body) : body \in IngestBodies}
    \cup {Request("GET", "application/x-ndjson", <<>>),
          Request("POST", "text/plain", <<>>)}

NextIngest ==
    \/ \E request \in IngestRequests : IngestNotPost(request)
    \/ \E request \in IngestRequests : IngestUnsupported(request)
    \/ \E request \in IngestRequests : IngestStart(request)
    \/ IngestLine
    \/ IngestRespond
    \/ \E args \in {Base(<<"h">>)} : AddGame(args) /\ UNCHANGED <<batch, txn>>
    \/ \E args \in {UpdateRename} : UpdateGame(args) /\ UNCHANGED <<batch, txn>>

\* the action runs to its response: the loop is sequential code
SpecIngest == Init /\ [][NextIngest]_vars /\ WF_vars(IngestLine \/ IngestRespond)

\* updates of the arrays, some of which stop between the delete and the insert
NextStops ==
    \/ \E args \in AttributeAddArgs : AddGame(args) /\ UNCHANGED <<batch, txn>>
    \/ \E args \in AttributeUpdateArgs : UpdateGame(args) /\ UNCHANGED <<batch, txn>>
    \/ \E args \in AttributeUpdateArgs : UpdateGameStops(args) /\ UNCHANGED <<batch, txn>>

SpecStops == Init /\ [][NextStops]_vars

\* creations under display names that differ in case and in outer spaces
CaseAddArgs ==
    {Base(name) : name \in {<<"P">>, <<"p">>, <<" ", "p">>, <<"H">>, <<"h", " ">>}}
    \cup {[Base(<<"p">>) EXCEPT !.aliases = Some(<< <<"B">> >>)]}

CaseUpsertArgs ==
    {[NoArgs EXCEPT !.title = Some(t), !.aliases = Some(<< <<"B">> >>)] :
        t \in {<<"P">>, <<"h">>}}

NextCase ==
    \/ \E args \in CaseAddArgs : AddGame(args) /\ UNCHANGED <<batch, txn>>
    \/ \E args \in CaseUpsertArgs : UpsertAliases(args) /\ UNCHANGED <<batch, txn>>

SpecCase == Init /\ [][NextCase]_vars

\* updates that give a normalized_name, a display_name, both or neither
KeyUpdateArgs ==
    {[Update(id) EXCEPT !.normalized_name = n, !.display_name = d] :
        id \in 1..(MaxGames + 1),
        n \in {Undefined, Null, Some(<<"q">>)},
        d \in {Undefined, Some(<<"P">>), Some(<<"H", " ">>)}}
    \cup {[UpdateParentByName EXCEPT !.display_name = Some(<<"q">>)]}

NextKeys ==
    \/ \E args \in TimeAddArgs : AddGame(args) /\ UNCHANGED <<batch, txn>>
    \/ \E args \in KeyUpdateArgs : UpdateGame(args) /\ UNCHANGED <<batch, txn>>

SpecKeys == Init /\ [][NextKeys]_vars

\* two clients whose addGame calls overlap
RaceAddArgs ==
    {Base(<<"P">>), Base(<<"h">>),
     [Base(<<"h">>) EXCEPT !.normalized_name = Some(<<"P">>)],
     [Base(<<"h">>) EXCEPT !.parent_game = Some([kind |-> "name", name |-> <<"P">>])]}

NextRace ==
    \/ \E c \in Clients : \E args \in RaceAddArgs : BeginAddGame(c, args)
    \/ \E c \in Clients : CommitAddGame(c)
    \/ \E c \in Clients : RetryAddGame(c)

SpecRace == Init /\ [][NextRace]_vars

\* games of a franchise, with a developer and a publisher, and the three
\* listings that fall back to a search
FranchiseAddArgs ==
    {[Base(<<"P">>) EXCEPT !.franchise = Some(<<"b">>), !.developer = Some(<<"b">>)],
     [Base(<<"b", " ", "h">>) EXCEPT !.franchise = Some(<<"w">>),
                                     !.developer = Some(<<"B", " ", "h">>),
                                     !.publisher = Some(<<"b">>)],
     Base(<<"h">>)}

FranchiseListArgs(field) ==
    {[NoArgs EXCEPT ![field] = Some(value), !.cursor = c, !.limit = l] :
        value \in {<<"b">>, <<"B">>, <<"h">>},
        c \in {Undefined, Some(1)},
        l \in {Undefined, Some(1)}}

NextFranchise ==
    \/ \E args \in FranchiseAddArgs : AddGame(args) /\ UNCHANGED <<batch, txn>>
    \/ \E args \in FranchiseListArgs("franchise") :
           listGamesByFranchise(args) /\ UNCHANGED <<batch, txn>>
    \/ \E args \in FranchiseListArgs("developer") :
           listGamesByDeveloper(args) /\ UNCHANGED <<batch, txn>>
    \/ \E args \in FranchiseListArgs("publisher") :
           listGamesByPublisher(args) /\ UNCHANGED <<batch, txn>>

SpecFranchise == Init /\ [][NextFranchise]_vars

\* games with tags and aliases, updates of them and of an id without a game,
\* and aliases upserted by title
SatelliteAddArgs ==
    {[Base(<<"P">>) EXCEPT !.tags = Some(<<"rpg">>),
                           !.aliases = Some(<< <<"B", " ">>, <<" ">> >>)],
     Base(<<"h">>)}

SatelliteUpdateArgs ==
    {[Update(id) EXCEPT !.tags = Some(<<"indie">>), !.aliases = Some(<< <<"H">> >>)] :
        id \in 1..(MaxGames + 1)}
    \cup {[Update(1) EXCEPT !.tags = Some(<<>>)], UpdateParentByName}

SatelliteUpsertArgs ==
    {[NoArgs EXCEPT !.title = Some(t), !.aliases = Some(<< <<"P", " ">> >>),
                    !.notes = Some(<<"n">>)] :
        t \in {<<"h">>, <<"b">>}}

NextSatellites ==
    \/ \E args \in SatelliteAddArgs : AddGame(args) /\ UNCHANGED <<batch, txn>>
    \/ \E args \in SatelliteUpdateArgs : UpdateGame(args) /\ UNCHANGED <<batch, txn>>
    \/ \E args \in SatelliteUpsertArgs : UpsertAliases(args) /\ UNCHANGED <<batch, txn>>

SpecSatellites == Init /\ [][NextSatellites]_vars

\* games with a parent given by name or by reference, and updates that give
\* a parent by name, by the reference of a game and by a reference no game has
ParentAddArgs ==
    {Base(<<"P">>),
     [Base(<<"h">>) EXCEPT !.parent_game = Some([kind |-> "name", name |-> <<"P">>])],
     [Base(<<"h">>) EXCEPT !.parent_game = Some([kind |-> "id", id |-> 1])]}

ParentUpdateArgs ==
    {[Update(id) EXCEPT !.parent_game = p] :
        id \in 1..(MaxGames + 1),
        p \in {Null, Some([kind |-> "name", name |-> <<"P">>]),
               Some([kind |-> "id", id |-> 1]),
               Some([kind |-> "id", id |-> MaxGames + 1])}}

NextParents ==
    \/ \E args \in ParentAddArgs : AddGame(args) /\ UNCHANGED <<batch, txn>>
    \/ \E args \in ParentUpdateArgs : UpdateGame(args) /\ UNCHANGED <<batch, txn>>
    \/ Tick /\ UNCHANGED <<batch, txn>>

SpecParents == Init /\ [][NextParents]_vars

-----------------------------------------------------------------------------
(* Properties *)

Range(s) == {s[i] : i \in 1..Len(s)}

Count(s, v) == Cardinality({i \in 1..Len(s) : s[i] = v})

\* s and t hold the same elements the same number of times
SameBag(s, t) ==
    Len(s) = Len(t) /\ \A v \in Range(s) \cup Range(t) : Count(s, v) = Count(t, v)

\* the value column of the rows of game id
ValuesOf(rows, id) == [k \in 1..Len(byGame(rows, id)) |-> byGame(rows, id)[k].value]

\* the array a game row stores in field f, empty when absent
StoredArray(g, f) == IF g[f] = Undefined THEN <<>> ELSE Val(g[f])

\* a step is a call of op exactly when it sets last.op to op and is no stutter
Called(op) == last'.op = op /\ vars' # vars

\* C1: an addGame whose effective normalized name N no row has returns
\* inserted = true with a new identity; the next call, when it is an addGame
\* whose effective normalized name is N too, returns inserted = false with that
\* identity; and exactly one row is named N.
C1_IdempotentCreate ==
    [][Called("addGame") =>
        LET N == addGameNormalizedName(last'.args)
        IN  /\ byNormalizedName(N) = {} =>
                  /\ ~last'.threw /\ last'.ok
                  /\ last'.id \notin GameIds /\ last'.id \in 1..Len(games')
                  /\ games'[last'.id].normalized_name = N
            /\ (last.op = "addGame" /\ last.ok /\ addGameNormalizedName(last.args) = N) =>
                  /\ ~last'.threw /\ ~last'.ok /\ last'.id = last.id
                  /\ Cardinality({i \in 1..Len(games') :
                         games'[i].normalized_name = N}) = 1
      ]_vars

\* C2: no two rows of games have the same normalized_name.
C2_UniqueNormalizedName ==
    \A i, j \in GameIds :
        games[i].normalized_name = games[j].normalized_name => i = j

\* C3 as stated: a row with a release_year has release_decade =
\* floor(release_year / 10) * 10 (NaN for the year NaN); a row without has none.
C3_DecadeOfEveryYear ==
    \A i \in GameIds :
        IF games[i].release_year = Undefined
        THEN games[i].release_decade = Undefined
        ELSE /\ games[i].release_decade # Undefined
             /\ Val(games[i].release_decade).nan = Val(games[i].release_year).nan
             /\ ~Val(games[i].release_year).nan =>
                    LET y == Val(games[i].release_year).n
                        d == Val(games[i].release_decade).n
                    IN  d % 10 = 0 /\ d <= y /\ y < d + 10

\* C3 amended: a row whose release_year is a number other than NaN has
\* release_decade = floor(release_year / 10) * 10; a row whose release_year is
\* absent or NaN has no release_decade.
C3_DecadeDerived ==
    \A i \in GameIds :
        IF games[i].release_year = Undefined \/ Val(games[i].release_year).nan
        THEN games[i].release_decade = Undefined
        ELSE /\ games[i].release_decade # Undefined
             /\ ~Val(games[i].release_decade).nan
             /\ LET y == Val(games[i].release_year).n
                    d == Val(games[i].release_decade).n
                IN  d % 10 = 0 /\ d <= y /\ y < d + 10

\* C3 witness: an updateGame gave a year to a game (a negative one, where
\* floor and truncation differ) and another row holds the year NaN.
C3_Witness ==
    /\ last.op = "updateGame" /\ last.ok
    /\ last.args.release_year = Some(Num(-5))
    /\ games[last.id].release_decade = Some(Num(-10))
    /\ \E j \in GameIds : games[j].release_year = Some(NaN)

\* C4: every join row carries the release_year and release_decade of the game
\* it references.
C4_JoinRowsCarryEra ==
    \A f \in ArrayFields : \A k \in 1..Len(joins[f]) :
        /\ joins[f][k].release_year = games[joins[f][k].gameId].release_year
        /\ joins[f][k].release_decade = games[joins[f][k].gameId].release_decade

\* C5: after an updateGame of an existing game that gives an array for an array
\* field, the game's rows in that join table are one per element of the array.
C5_ReplaceAll ==
    [][Called("updateGame") /\ last'.ok =>
        \A f \in ArrayFields :
            ~IsNullish(last'.args[f]) =>
                SameBag(ValuesOf(joins'[f], last'.id), Val(last'.args[f]))
      ]_vars

\* C6: an updateGame leaves a join table, or the alias table, as it was when the
\* call does not give that field, and never changes the join or alias rows of
\* another game than the one it names.
C6_UpdateFrame ==
    [][Called("updateGame") =>
        /\ \A f \in ArrayFields :
              /\ IsNullish(last'.args[f]) => joins'[f] = joins[f]
              /\ \A g \in 1..Len(games') :
                    g # Val(last'.args.id) => byGame(joins'[f], g) = byGame(joins[f], g)
        /\ IsNullish(last'.args.aliases) => aliasRows' = aliasRows
        /\ \A g \in 1..Len(games') :
              g # Val(last'.args.id) => byGame(aliasRows', g) = byGame(aliasRows, g)
      ]_vars

\* C6 witness: an updateGame replaced the genre rows of a game that has tag
\* and alias rows, gave neither tags nor aliases, and another game has rows.
C6_Witness ==
    /\ last.op = "updateGame" /\ last.ok
    /\ ~IsNullish(last.args.genre)
    /\ IsNullish(last.args.tags) /\ IsNullish(last.args.aliases)
    /\ byGame(joins.tags, last.id) # <<>>
    /\ byGame(aliasRows, last.id) # <<>>
    /\ \E g \in GameIds : g # last.id /\ byGame(joins.genre, g) # <<>>

\* C7: game_aliases never holds two rows with the same gameId and alias.
C7_NoDuplicateAlias ==
    \A j, k \in 1..Len(aliasRows) :
        (aliasRows[j].gameId = aliasRows[k].gameId
            /\ aliasRows[j].alias = aliasRows[k].alias) => j = k

\* C8: for each game and array field, the values of the game's join rows are
\* the elements of the array the game row stores, each as many times.
C8_JoinRowsMirrorArray ==
    \A i \in GameIds : \A f \in ArrayFields :
        SameBag(ValuesOf(joins[f], i), StoredArray(games[i], f))

\* C9: every stored normalized_name equals its own trimmed lower-case form.
C9_NormalizedNameCanonical ==
    \A i \in GameIds :
        games[i].normalized_name = toLowerCase(trim(games[i].normalized_name))

\* C10: an updateGame whose id names no game returns {_id: id, updated: false}
\* and leaves games, the join tables and the alias table as they were.
C10_UpdateMissing ==
    [][Called("updateGame") /\ ~Exists(Val(last'.args.id)) =>
        /\ ~last'.threw /\ ~last'.ok /\ last'.id = Val(last'.args.id)
        /\ UNCHANGED <<games, joins, aliasRows>>
      ]_vars

\* C10 witness: the call was made on a catalog that holds games, join rows
\* and alias rows.
C10_Witness ==
    /\ last.op = "updateGame" /\ ~last.threw /\ ~last.ok
    /\ last.id = Val(last.args.id) /\ ~Exists(last.id)
    /\ games # <<>> /\ joins.platforms # <<>> /\ aliasRows # <<>>

\* the scalar fields updateGame patches with "args.<field> ?? existing.<field>"
ScalarFields ==
    {"display_name", "summary", "developer", "publisher", "release_year", "parent_game"}

\* C11: after an updateGame of an existing game, each scalar field holds the
\* incoming value when one was given and was not null, and the value it held
\* before otherwise; a scalar field that was present is still present.
C11_ScalarFallback ==
    [][Called("updateGame") /\ Exists(Val(last'.args.id)) =>
        \A f \in ScalarFields :
            LET before == games[Val(last'.args.id)][f]
                after == games'[Val(last'.args.id)][f]
            IN  /\ after = Coalesce(last'.args[f], before)
                /\ before # Undefined => after # Undefined
      ]_vars

\* C12: an addGame that inserts sets createdAt and updatedAt of the new row to
\* the same value; an updateGame that updates sets updatedAt to the time of the
\* call; no step changes the createdAt of a row; and updatedAt >= createdAt in
\* every row.
C12_Timestamps ==
    [][/\ \A i \in GameIds : games'[i].createdAt = games[i].createdAt
       /\ Called("addGame") /\ last'.ok =>
              games'[last'.id].createdAt = games'[last'.id].updatedAt
       /\ Called("updateGame") /\ last'.ok => games'[last'.id].updatedAt = clock
       /\ \A i \in 1..Len(games') : games'[i].updatedAt >= games'[i].createdAt
      ]_vars

\* C12 witness: an updateGame updated a game at a later time than its creation.
C12_Witness ==
    /\ last.op = "updateGame" /\ last.ok
    /\ games[last.id].updatedAt > games[last.id].createdAt
    /\ games[last.id].updatedAt = clock

\* the aliases of a, normalized, without those that normalize to the empty string
RECURSIVE NonEmptyNormalized(_)
NonEmptyNormalized(a) ==
    IF a = <<>> THEN <<>>
    ELSE (IF toLowerCase(trim(Head(a))) = <<>> THEN <<>>
          ELSE <<toLowerCase(trim(Head(a)))>>) \o NonEmptyNormalized(Tail(a))

\* the aliases an incoming document gives, none when the field is absent or null
IncomingAliases(args) ==
    IF IsNullish(args.aliases) THEN <<>> ELSE NonEmptyNormalized(Val(args.aliases))

\* C13: an addGame under a normalized_name that a row has leaves table games and
\* the five join tables as they were; when it returns it reports inserted =
\* false with that row's identity and has added exactly one alias row for it per
\* incoming alias that is non-empty once normalized, and when it fails it has
\* added nothing.
C13_ExistingUntouched ==
    [][Called("addGame") /\ byNormalizedName(addGameNormalizedName(last'.args)) # {} =>
        /\ games' = games
        /\ joins' = joins
        /\ IF last'.threw THEN aliasRows' = aliasRows
           ELSE LET A == IncomingAliases(last'.args)
                IN  /\ ~last'.ok
                    /\ last'.id \in byNormalizedName(addGameNormalizedName(last'.args))
                    /\ Len(aliasRows') = Len(aliasRows) + Len(A)
                    /\ SubSeq(aliasRows', 1, Len(aliasRows)) = aliasRows
                    /\ \A k \in 1..Len(A) :
                          /\ aliasRows'[Len(aliasRows) + k].gameId = last'.id
                          /\ aliasRows'[Len(aliasRows) + k].alias = A[k]
      ]_vars

\* C13 witness: at a later time than the game's creation, an addGame found the
\* game, with a document that gives other fields than the row holds, tags the
\* game has no rows for, and two aliases of which one is blank.
C13_Witness ==
    /\ last.op = "addGame" /\ ~last.threw /\ ~last.ok
    /\ last.args.summary # games[last.id].summary
    /\ ~IsNullish(last.args.tags) /\ byGame(joins.tags, last.id) = <<>>
    /\ Len(Val(last.args.aliases)) = 2
    /\ Len(byGame(aliasRows, last.id)) = 1
    /\ games[last.id].updatedAt < clock

\* the alias column of the alias rows of game id
AliasesOf(rows, id) == [k \in 1..Len(byGame(rows, id)) |-> byGame(rows, id)[k].alias]

\* C14: after an updateGame of an existing game that gives an aliases array, the
\* game's alias rows are one per element of the array that is non-empty once
\* normalized, holding that normalized form, and the alias rows of every other
\* game are as they were.
C14_AliasReplaceAll ==
    [][Called("updateGame") /\ last'.ok /\ ~IsNullish(last'.args.aliases) =>
        /\ SameBag(AliasesOf(aliasRows', last'.id), IncomingAliases(last'.args))
        /\ \A g \in GameIds :
              g # last'.id => byGame(aliasRows', g) = byGame(aliasRows, g)
      ]_vars

\* C15: an upsertAliases whose title is the normalized_name of no game, whose
\* normalized title is the normalized_name of no game, and for which the search
\* over display_name finds no game, returns {_id: null, upserted: 0} and leaves
\* every table as it was.
C15_UpsertNotFound ==
    [][(/\ Called("upsertAliases")
        /\ byNormalizedName(Val(last'.args.title)) = {}
        /\ byNormalizedName(Val(normalizeString(last'.args.title))) = {}
        /\ searchDisplayName(Val(last'.args.title)) = {}) =>
        /\ ~last'.threw /\ last'.id = NullId /\ last'.n = 0
        /\ UNCHANGED <<games, joins, aliasRows>>
      ]_vars

\* C15 witness: the call was made with a title no game answers to, on a catalog
\* that holds games and alias rows.
C15_Witness ==
    /\ last.op = "upsertAliases" /\ ~last.threw /\ last.id = NullId /\ last.n = 0
    /\ Len(games) = MaxGames /\ aliasRows # <<>>
    /\ searchDisplayName(Val(last.args.title)) = {}

\* the games the resolver order of upsertAliases names for a title: those whose
\* normalized_name is the title; if none, those whose normalized_name is the
\* normalized title; if none, the hits of the search over display_name
Resolved(title) ==
    IF byNormalizedName(title) # {} THEN byNormalizedName(title)
    ELSE IF byNormalizedName(Val(normalizeString(Some(title)))) # {}
         THEN byNormalizedName(Val(normalizeString(Some(title))))
         ELSE searchDisplayName(title)

\* C16: an upsertAliases call returns the game its title resolves to, in the
\* order raw title, normalized title, search over display_name, and gives alias
\* rows to that game only; it returns no game when the title resolves to none.
C16_ResolverOrder ==
    [][Called("upsertAliases") =>
        LET hits == Resolved(Val(last'.args.title))
        IN  /\ ~last'.threw
            /\ IF hits = {} THEN last'.id = NullId ELSE last'.id \in hits
            /\ \A g \in GameIds :
                  g # last'.id => byGame(aliasRows', g) = byGame(aliasRows, g)
      ]_vars

\* the references to the games given
Refs(ids) == {Some([kind |-> "id", id |-> g]) : g \in ids}

\* C17: an addGame under a free name that gives parent_game as a name inserts
\* the game with, as parent, the game whose normalized_name is that name, or null
\* when there is none (whatever the search would find); with parent_game absent
\* or null it inserts the game with parent null; and it does not fail.
C17_ParentByName ==
    [][(/\ Called("addGame")
        /\ byNormalizedName(addGameNormalizedName(last'.args)) = {}
        /\ IsNullish(last'.args.parent_game)
              \/ Val(last'.args.parent_game).kind = "name") =>
        /\ ~last'.threw /\ last'.ok
        /\ LET named == IF IsNullish(last'.args.parent_game) THEN {}
                        ELSE byNormalizedName(Val(last'.args.parent_game).name)
           IN  IF named = {} THEN games'[last'.id].parent_game = Null
               ELSE games'[last'.id].parent_game \in Refs(named)
      ]_vars

\* C18: an addGame under a free name that gives parent_game as the reference of
\* an existing game inserts the game with that reference as parent_game.
C18_ParentByReference ==
    [][(/\ Called("addGame")
        /\ byNormalizedName(addGameNormalizedName(last'.args)) = {}
        /\ ~IsNullish(last'.args.parent_game)
        /\ Val(last'.args.parent_game).kind = "id"
        /\ Exists(Val(last'.args.parent_game).id)) =>
        /\ ~last'.threw /\ last'.ok
        /\ games'[last'.id].parent_game = last'.args.parent_game
      ]_vars

NoRepeat(s) == \A i, j \in DOMAIN s : s[i] = s[j] => i = j

\* the position of x in s
Pos(s, x) == CHOOSE k \in DOMAIN s : s[k] = x

\* the field a listing query looks up
ListedField(op) == IF op = "listGamesByDeveloper" THEN "developer" ELSE "publisher"

\* the limit of a listing query: 25 when none is given, else within 1..100
ListedLimit(l) ==
    IF l = Undefined THEN 25
    ELSE IF Val(l) < 1 THEN 1 ELSE IF Val(l) > 100 THEN 100 ELSE Val(l)

\* C19: listGamesByDeveloper and listGamesByPublisher: when no game holds the
\* string in the field and the search over the field has hits, the call returns
\* hits of that search, all of them or as many as the limit, as a page with
\* isDone = true and continueCursor = null; when the page of the exact index is
\* not empty the call returns that page, in which every game holds the string.
C19_ListFallback ==
    [][Called("listGamesByDeveloper") \/ Called("listGamesByPublisher") =>
        LET field == ListedField(last'.op)
            value == Val(last'.args[field])
            exact == {i \in GameIds : games[i][field] = Some(value)}
            hits == searchField(field, value)
            limit == ListedLimit(last'.args.limit)
            exactPage == paginate(byField(field, value, 1), last'.args.cursor, limit)
            r == last'.list
        IN  /\ (exact = {} /\ hits # {}) =>
                  /\ r.page # <<>> /\ Range(r.page) \subseteq hits /\ NoRepeat(r.page)
                  /\ Len(r.page) = Min(limit, Cardinality(hits))
                  /\ r.isDone /\ r.continueCursor = Null
            /\ exactPage # <<>> =>
                  /\ r.page = exactPage /\ Range(r.page) \subseteq exact
                  /\ r.continueCursor # Null
      ]_vars

\* C19 witness: no game holds the developer asked for, two games match it in
\* the search, and the call returned one of them, the limit, as a last page.
C19_Witness ==
    /\ last.op = "listGamesByDeveloper"
    /\ {i \in GameIds : games[i].developer = last.args.developer} = {}
    /\ Cardinality(searchField("developer", Val(last.args.developer))) = 2
    /\ Len(last.list.page) = 1 /\ last.list.isDone /\ last.list.continueCursor = Null

\* the limit of searchGamesByName: 20 when none is given, else within 1..50
SearchedLimit(l) ==
    IF l = Undefined THEN 20
    ELSE IF Val(l) < 1 THEN 1 ELSE IF Val(l) > 50 THEN 50 ELSE Val(l)

\* C20: searchGamesByName returns a list without a repeated game, no longer than
\* the clamped limit, of hits of the two searches, in which the hits of the
\* display-name search come before the others, the hits of the display-name
\* search in the order that search ranked them and the others in the order the
\* normalized-name search ranked them.
C20_SearchMerge ==
    [][Called("searchGamesByName") =>
        LET page == last'.list.page
            byDisplay == last'.list.ranked[1]
            byNormalized == last'.list.ranked[2]
            display == searchDisplayName(Val(last'.args.q))
            normalized == searchNormalizedName(Val(last'.args.q))
        IN  /\ NoRepeat(page)
            /\ Len(page) <= SearchedLimit(last'.args.limit)
            /\ Range(page) \subseteq display \cup normalized
            /\ \A i, j \in DOMAIN page :
                  i < j =>
                     /\ page[i] \notin display => page[j] \notin display
                     /\ (page[i] \in display /\ page[j] \in display) =>
                            Pos(byDisplay, page[i]) < Pos(byDisplay, page[j])
                     /\ (page[i] \notin display /\ page[j] \notin display) =>
                            Pos(byNormalized, page[i]) < Pos(byNormalized, page[j])
      ]_vars

\* C20 witness: the search returned two games, the first a hit of both searches
\* and the second a hit of the normalized-name search alone.
C20_Witness ==
    /\ last.op = "searchGamesByName"
    /\ Len(last.list.page) = 2
    /\ last.list.page[1] \in Range(last.list.ranked[1])
    /\ last.list.page[1] \in Range(last.list.ranked[2])
    /\ last.list.page[2] \notin searchDisplayName(Val(last.args.q))

\* the array field and the argument a query by attribute looks up
AttributeField(op) ==
    IF op = "listGamesByPlatform" THEN "platforms"
    ELSE IF op = "listGamesByGenre" THEN "genre" ELSE "tags"

AttributeColumn(op) ==
    IF op = "listGamesByPlatform" THEN "platform"
    ELSE IF op = "listGamesByGenre" THEN "genre" ELSE "tag"

\* C21: every element that listGamesByPlatform, listGamesByGenre or
\* listGamesByTag returns for a value (and a decade, when one is given) is an
\* existing game whose array of that field contains the value and, when a
\* decade is given, whose release_decade is that decade.
C21_AttributeListing ==
    [][Called("listGamesByPlatform") \/ Called("listGamesByGenre")
            \/ Called("listGamesByTag") =>
        LET value == Val(last'.args[AttributeColumn(last'.op)])
            decade == last'.args.decade
        IN  \A k \in 1..Len(last'.list.page) :
                LET id == last'.list.page[k]
                IN  /\ Exists(id)
                    /\ value \in Range(StoredArray(games[id], AttributeField(last'.op)))
                    /\ ~IsNullish(decade) => games[id].release_decade = decade
      ]_vars

\* a turn of ingestNdjson's loop has just taken the first of the lines left
IngestedLine == batch.pc = "loop" /\ batch.lines # <<>> /\ batch'.lines = Tail(batch.lines)

\* alias-shaped: a string title, an aliases array, no other field of a game
AliasShaped(line) ==
    /\ line.kind = "object"
    /\ ~IsNullish(line.obj.title) /\ ~IsNullish(line.obj.aliases)
    /\ \A a \in AddGameArgNames \ {"aliases"} : line.obj[a] = Undefined

\* C22: a parsed line goes to upsertAliases only when it is alias-shaped (a
\* string title, an aliases array, none of the other fields of a game); every
\* other document, a full game document with a title and aliases too, goes
\* to addGame.
C22_Routing ==
    [][IngestedLine /\ Head(batch.lines).kind \in {"scalar", "object"} =>
        last'.op = IF AliasShaped(Head(batch.lines)) THEN "upsertAliases" ELSE "addGame"
      ]_vars

\* the rows of the games table, after the step, that hold a normalized name
byNormalizedNameAfter(name) ==
    {i \in 1..Len(games') : games'[i].normalized_name = name}

\* what a line's call leaves when it returns: the game of an accepted game
\* document is in the table, the aliases of a routed alias document are rows
\* of the game the title resolved to
LineEffect(line) ==
    /\ ~routesToAliases(line) /\ addGameAccepts(line) /\ ~last'.threw =>
           byNormalizedNameAfter(addGameNormalizedName(line.obj)) # {}
    /\ routesToAliases(line) /\ ~last'.threw /\ last'.id # NullId =>
           \A k \in 1..Len(Val(line.obj.aliases)) :
               LET aliasNorm == Val(normalizeString(Some(Val(line.obj.aliases)[k])))
               IN  aliasNorm # <<>> =>
                       \E r \in 1..Len(aliasRows') :
                           /\ aliasRows'[r].gameId = last'.id
                           /\ aliasRows'[r].alias = aliasNorm

\* C23: a line that fails (text that is no JSON, a mutation that raises) does
\* not end the request: each turn of the loop takes the next line, whatever
\* came of the lines before it, and applies its call; after the last line the
\* action returns {inserted, skipped} with status 200, and every request that
\* is taken gets there.
C23_Independence ==
    /\ [][batch.pc = "loop" /\ batch' # batch =>
            IF batch.lines = <<>>
            THEN batch' = [batch EXCEPT !.pc = "done", !.status = 200]
            ELSE /\ batch'.pc = "loop"
                 /\ batch'.lines = Tail(batch.lines)
                 /\ Len(batch'.log) = Len(batch.log) + 1
                 /\ LineEffect(Head(batch.lines))
         ]_vars
    /\ (batch.pc = "loop") ~> (batch.pc = "done" /\ batch.status = 200)

\* C23 witness: the request is answered, a line of it failed and a later line
\* inserted a game.
C23_Witness ==
    /\ batch.pc = "done" /\ batch.status = 200
    /\ \E i, j \in 1..Len(batch.log) :
           i < j /\ batch.log[i] = "failed" /\ batch.log[j] = "inserted"

\* C24: a line that is malformed or whose call fails is counted as skipped, so
\* the counts returned add up to the number of non-blank lines of the body.
C24_Counts ==
    batch.pc = "done" /\ batch.status = 200 =>
        batch.inserted + batch.skipped = Len(batch.log) + Len(batch.lines)

\* C25: every addGame, updateGame and upsertAliases call returns its result
\* ({_id, inserted}, {_id, updated}, {_id, upserted}); none raises an error
\* over what the tables hold.
C25_NeverThrows ==
    [][Called("addGame") \/ Called("updateGame") \/ Called("upsertAliases") =>
        ~last'.threw]_vars

\* two calls that looked up one name, found no row, both before either was
\* committed, and have both returned
RacedPair(c, d) ==
    /\ c # d
    /\ txn[c].pc = "done" /\ txn[d].pc = "done"
    /\ txn[c].raced /\ txn[d].raced
    /\ addGameNormalizedName(txn[c].args) = addGameNormalizedName(txn[d].args)

StoppedUpdate ==
    /\ Called("updateGame") /\ last'.threw
    /\ Exists(Val(last'.args.id)) /\ ~patchViolatesSchema(last'.args)

C28_CaseInsensitiveCreate ==
    [][Called("addGame") /\ IsNullish(last'.args.normalized_name) =>
        \A i \in GameIds :
            normalizeString(games[i].display_name)
                    = normalizeString(last'.args.display_name) =>
                /\ ~last'.ok /\ last'.id = i
                /\ Len(games') = Len(games)
      ]_vars

NormalizedAliases(aliases) ==
    {Val(normalizeString(Some(aliases[k]))) : k \in 1..Len(aliases)} \ {<<>>}

\* C30: an upsertAliases that resolves a game returns as upserted the number
\* of alias rows it inserted, which is the number of distinct non-empty
\* normalized aliases given that the game did not have; the same call made
\* again at once returns upserted = 0 and inserts nothing, whatever rows other
\* games have under the same alias.
C30_UpsertCount ==
    [][Called("upsertAliases") /\ ~last'.threw /\ last'.id # NullId =>
        /\ last'.n = Len(aliasRows') - Len(aliasRows)
        /\ last'.n = Cardinality(NormalizedAliases(Val(last'.args.aliases))
                                     \ Range(AliasesOf(aliasRows, last'.id)))
        /\ (last.op = "upsertAliases" /\ last.args = last'.args /\ last.id = last'.id) =>
               last'.n = 0 /\ aliasRows' = aliasRows
      ]_vars

\* C31 as stated: a listGamesByFranchise whose string no game holds as its
\* franchise returns hits of a search over the franchise field, all of them or
\* as many as the limit, as a page with isDone = true and continueCursor = null.
C31_FranchiseSameField ==
    [][Called("listGamesByFranchise") =>
        LET value == Val(last'.args.franchise)
            hits == searchField("franchise", value)
            r == last'.list
        IN  byField("franchise", value, 1) = <<>> =>
               /\ Range(r.page) \subseteq hits /\ NoRepeat(r.page)
               /\ Len(r.page) = Min(ListedLimit(last'.args.limit), Cardinality(hits))
               /\ r.isDone /\ r.continueCursor = Null
      ]_vars

\* C31: a listGamesByFranchise whose string no game holds as its franchise
\* returns hits of a search of that string over display_name, all of them or as
\* many as the limit, as a page with isDone = true and continueCursor = null.
C31_FranchiseFallback ==
    [][Called("listGamesByFranchise") =>
        LET value == Val(last'.args.franchise)
            hits == searchDisplayName(value)
            r == last'.list
        IN  byField("franchise", value, 1) = <<>> =>
               /\ Range(r.page) \subseteq hits /\ NoRepeat(r.page)
               /\ Len(r.page) = Min(ListedLimit(last'.args.limit), Cardinality(hits))
               /\ r.isDone /\ r.continueCursor = Null
      ]_vars

\* C31 witness: no game holds the franchise asked for, the search over the
\* franchise field and the search over display_name have different hits, and
\* the call returned a display_name hit as a last page.
C31_Witness ==
    /\ last.op = "listGamesByFranchise"
    /\ byField("franchise", Val(last.args.franchise), 1) = <<>>
    /\ searchField("franchise", Val(last.args.franchise)) # {}
    /\ searchField("franchise", Val(last.args.franchise))
           \cap searchDisplayName(Val(last.args.franchise)) = {}
    /\ last.list.page # <<>> /\ last.list.isDone /\ last.list.continueCursor = Null

\* C32: a listGamesByDeveloper, listGamesByPublisher or listGamesByFranchise
\* whose string at least one game holds in the field returns, whatever its
\* cursor, no game but those that hold the string in the field.
C32_ExactExcludesFallback ==
    [][Called("listGamesByDeveloper") \/ Called("listGamesByPublisher")
          \/ Called("listGamesByFranchise") =>
        LET field == IF last'.op = "listGamesByFranchise" THEN "franchise"
                     ELSE ListedField(last'.op)
        IN  byField(field, Val(last'.args[field]), 1) # <<>> =>
               \A k \in 1..Len(last'.list.page) :
                   games[last'.list.page[k]][field] = last'.args[field]
      ]_vars
\* the rows of the join tables and of game_aliases, as one set of game ids
SatelliteGameIds ==
    UNION {{joins[f][k].gameId : k \in 1..Len(joins[f])} : f \in ArrayFields}
        \cup {aliasRows[k].gameId : k \in 1..Len(aliasRows)}

\* C33: in every state the calls of addGame, updateGame and upsertAliases
\* reach, the gameId of every join row and of every alias row is the id of a
\* game in the table, and no call removes a game from the table.
C33_SatellitesReferToGames ==
    /\ [](\A id \in SatelliteGameIds : Exists(id))
    /\ [][Len(games') >= Len(games)]_vars

\* C33 witness: an updateGame that gives tags and aliases was called with an
\* id that has no game, while a game has a tag row and an alias row.
C33_Witness ==
    /\ last.op = "updateGame" /\ ~last.ok /\ ~last.threw
    /\ ~Exists(Val(last.args.id))
    /\ ~IsNullish(last.args.tags) /\ ~IsNullish(last.args.aliases)
    /\ joins.tags # <<>> /\ aliasRows # <<>>

\* an alias in normalized form: what normalizeString makes of it is the alias
IsNormalized(alias) == Val(normalizeString(Some(alias))) = alias

\* C34: in every reachable state the alias of every row of game_aliases is
\* not empty and is in normalized form, trimmed and in lower case.
C34_AliasRowsNormalized ==
    \A k \in 1..Len(aliasRows) :
        aliasRows[k].alias # <<>> /\ IsNormalized(aliasRows[k].alias)

\* C34 witness: an upsertAliases has left a row, and the last call, an
\* updateGame given an alias that is not in normalized form, has left one.
C34_Witness ==
    /\ last.op = "updateGame" /\ last.ok
    /\ ~IsNullish(last.args.aliases)
    /\ \E k \in 1..Len(Val(last.args.aliases)) : ~IsNormalized(Val(last.args.aliases)[k])
    /\ \E k \in 1..Len(aliasRows) : aliasRows[k].gameId = last.id
    /\ \E k \in 1..Len(aliasRows) : aliasRows[k].notes # Undefined
\* a game's row without its updatedAt
ButUpdatedAt(g) == [g EXCEPT !.updatedAt = 0]

\* C35: an updateGame called again with the arguments of the call just made
\* leaves every field of every game but updatedAt as it is, and leaves each
\* join table and the alias table with the same rows, as multisets.
C35_UpdateIdempotent ==
    [][Called("updateGame") /\ last.op = "updateGame" /\ last'.args = last.args =>
        /\ Len(games') = Len(games)
        /\ \A i \in GameIds : ButUpdatedAt(games'[i]) = ButUpdatedAt(games[i])
        /\ \A f \in ArrayFields : SameBag(joins'[f], joins[f])
        /\ SameBag(aliasRows', aliasRows)
      ]_vars
\* C36: in every state the calls of addGame and updateGame reach, the
\* parent_game of every game is null or the id of a game in the table, never
\* a name.
C36_ParentIsGame ==
    \A i \in GameIds :
        \/ games[i].parent_game = Null
        \/ /\ games[i].parent_game # Undefined
           /\ Val(games[i].parent_game).kind = "id"
           /\ Exists(Val(games[i].parent_game).id)
====
